---- MODULE Spec2Model ----
(***************************************************************************)
(* Model of the log-analysis pipeline of src/agent.py: the seven nodes of  *)
(* the compiled graph acting on one SecurityState dictionary.              *)
(*                                                                         *)
(* Representation.                                                         *)
(*  - A Python dict is a function whose DOMAIN is the set of keys present; *)
(*    reading a missing key with d[k] is an evaluation error, as KeyError. *)
(*  - A Python str is a sequence of one-character strings, so that `in`    *)
(*    (substring), `+` (concatenation) and lower() are computed.           *)
(*  - A Python float is a record [dec, fl]: fl is the IEEE-754 double the  *)
(*    program holds, computed with round-to-nearest-even, and every        *)
(*    comparison the code makes is made on it; dec is the exact decimal    *)
(*    the double stands for, an integer in the unit of its quantity:       *)
(*      feature values and evidence scores before weighting   x 100        *)
(*      priority weights and base category weights            x 10         *)
(*      risk_score                                            x 10^4       *)
(*      weighted evidence scores and alert_confidence         x 10^6       *)
(*    The properties state numeric values on dec, so that a rounding error *)
(*    in the last binary digit is not counted as a difference.             *)
(*  - None is the string "None" where the other values are strings, and a  *)
(*    missing key where dict.get supplies the default.                     *)
(***************************************************************************)
EXTENDS Integers, Sequences, FiniteSets, TLC

VARIABLES state, pc, idx, sql_injection_score, unexpected_field_score, evaluated

vars == <<state, pc, idx, sql_injection_score, unexpected_field_score, evaluated>>

(***************************************************************************)
(* String literals of the source.                                          *)
(***************************************************************************)
K_sql == <<"s", "q", "l">>
K_credential == <<"c", "r", "e", "d", "e", "n", "t", "i", "a", "l">>
K_login == <<"l", "o", "g", "i", "n">>
K_behavior == <<"b", "e", "h", "a", "v", "i", "o", "r">>
K_explain == <<"e", "x", "p", "l", "a", "i", "n">>
P_api_login == <<"/", "a", "p", "i", "/", "l", "o", "g", "i", "n">>
P_api_users == <<"/", "a", "p", "i", "/", "u", "s", "e", "r", "s", "/">>
P_api_orders == <<"/", "a", "p", "i", "/", "o", "r", "d", "e", "r", "s">>
M_or_1_1 == <<"O", "R", " ", "1", "=", "1">>
M_union_select == <<"U", "N", "I", "O", "N", " ", "S", "E", "L", "E", "C", "T">>
M_isAdmin == <<"i", "s", "A", "d", "m", "i", "n">>
M_role == <<"r", "o", "l", "e">>
M_sqlmap == <<"s", "q", "l", "m", "a", "p">>

(***************************************************************************)
(* Python built-ins used by the nodes.                                     *)
(***************************************************************************)
Get(d, k, default) == IF k \in DOMAIN d THEN d[k] ELSE default

SetKey(d, k, v) == [x \in DOMAIN d \cup {k} |-> IF x = k THEN v ELSE d[x]]

Merge(d1, d2) == [k \in DOMAIN d1 \cup DOMAIN d2 |-> IF k \in DOMAIN d2 THEN d2[k] ELSE d1[k]]

Contains(needle, hay) ==
    \E k \in 0..(Len(hay) - Len(needle)) : SubSeq(hay, k + 1, k + Len(needle)) = needle

UpperToLower ==
    [c \in {"A", "B", "C", "D", "E", "F", "G", "H", "I", "J", "K", "L", "M",
            "N", "O", "P", "Q", "R", "S", "T", "U", "V", "W", "X", "Y", "Z"} |->
        CASE c = "A" -> "a" [] c = "B" -> "b" [] c = "C" -> "c" [] c = "D" -> "d"
          [] c = "E" -> "e" [] c = "F" -> "f" [] c = "G" -> "g" [] c = "H" -> "h"
          [] c = "I" -> "i" [] c = "J" -> "j" [] c = "K" -> "k" [] c = "L" -> "l"
          [] c = "M" -> "m" [] c = "N" -> "n" [] c = "O" -> "o" [] c = "P" -> "p"
          [] c = "Q" -> "q" [] c = "R" -> "r" [] c = "S" -> "s" [] c = "T" -> "t"
          [] c = "U" -> "u" [] c = "V" -> "v" [] c = "W" -> "w" [] c = "X" -> "x"
          [] c = "Y" -> "y" [] c = "Z" -> "z"]

Lower(s) == [k \in 1..Len(s) |-> IF s[k] \in DOMAIN UpperToLower THEN UpperToLower[s[k]] ELSE s[k]]

Min2(a, b) == IF a <= b THEN a ELSE b

Abs(x) == IF x < 0 THEN -x ELSE x

\* e.get(k) == v : a missing key gives None, which equals no string or number
FieldEq(e, k, v) == k \in DOMAIN e /\ e[k] = v

(***************************************************************************)
(* Unbounded naturals: a sequence of limbs in base 2^15, least significant *)
(* first, without leading zero limbs; <<>> is zero.                        *)
(***************************************************************************)
Base == 2^15

RECURSIVE Trim(_)
Trim(a) ==
    IF Len(a) = 0 THEN a
    ELSE IF a[Len(a)] = 0 THEN Trim(SubSeq(a, 1, Len(a) - 1)) ELSE a

Limb(a, k) == IF k <= Len(a) THEN a[k] ELSE 0

RECURSIVE BAddFrom(_, _, _, _)
BAddFrom(a, b, k, carry) ==
    IF k > Len(a) /\ k > Len(b)
    THEN IF carry = 0 THEN <<>> ELSE <<carry>>
    ELSE LET t == Limb(a, k) + Limb(b, k) + carry
         IN  <<t % Base>> \o BAddFrom(a, b, k + 1, t \div Base)

BAdd(a, b) == BAddFrom(a, b, 1, 0)

RECURSIVE BSubFrom(_, _, _, _)
BSubFrom(a, b, k, borrow) ==
    IF k > Len(a) THEN <<>>
    ELSE LET t == a[k] - Limb(b, k) - borrow
         IN  IF t < 0 THEN <<t + Base>> \o BSubFrom(a, b, k + 1, 1)
                      ELSE <<t>> \o BSubFrom(a, b, k + 1, 0)

\* a - b for a >= b
BSub(a, b) == Trim(BSubFrom(a, b, 1, 0))

\* -1, 0 or 1
BCmp(a, b) ==
    IF Len(a) # Len(b) THEN (IF Len(a) > Len(b) THEN 1 ELSE -1)
    ELSE LET differ == {k \in 1..Len(a) : a[k] # b[k]}
         IN  IF differ = {} THEN 0
             ELSE LET top == CHOOSE k \in differ : \A j \in differ : j <= k
                  IN  IF a[top] > b[top] THEN 1 ELSE -1

RECURSIVE BMulSmallFrom(_, _, _, _)
BMulSmallFrom(a, d, k, carry) ==
    IF k > Len(a)
    THEN IF carry = 0 THEN <<>> ELSE <<carry>>
    ELSE LET t == a[k] * d + carry
         IN  <<t % Base>> \o BMulSmallFrom(a, d, k + 1, t \div Base)

\* a * d for 0 <= d <= Base
BMulSmall(a, d) == Trim(BMulSmallFrom(a, d, 1, 0))

BShiftLimbs(a, q) == IF Len(a) = 0 THEN a ELSE [k \in 1..q |-> 0] \o a

RECURSIVE BMulFrom(_, _, _)
BMulFrom(a, b, k) ==
    IF k > Len(b) THEN <<>>
    ELSE BAdd(BShiftLimbs(BMulSmall(a, b[k]), k - 1), BMulFrom(a, b, k + 1))

BMul(a, b) == BMulFrom(a, b, 1)

RECURSIVE BDivSmallFrom(_, _, _, _)
\* quotient limbs k..1 (as a least-significant-first sequence) and the remainder
BDivSmallFrom(a, d, k, rem) ==
    IF k = 0 THEN [q |-> <<>>, r |-> rem]
    ELSE LET t == rem * Base + a[k]
             rest == BDivSmallFrom(a, d, k - 1, t % d)
         IN  [q |-> Append(rest.q, t \div d), r |-> rest.r]

\* quotient and remainder of a by d, 0 < d <= Base
BDivSmall(a, d) ==
    LET res == BDivSmallFrom(a, d, Len(a), 0)
    IN  [q |-> Trim(res.q), r |-> res.r]

BShiftLeft(a, k) == BShiftLimbs(BMulSmall(a, 2^(k % 15)), k \div 15)

BShiftRight(a, k) ==
    IF k \div 15 >= Len(a) THEN <<>>
    ELSE BDivSmall(SubSeq(a, (k \div 15) + 1, Len(a)), 2^(k % 15)).q

BitLen(a) ==
    IF Len(a) = 0 THEN 0
    ELSE 15 * (Len(a) - 1) + (CHOOSE n \in 1..15 : 2^(n - 1) <= a[Len(a)] /\ a[Len(a)] < 2^n)

BOdd(a) == Len(a) > 0 /\ a[1] % 2 = 1

(***************************************************************************)
(* IEEE-754 binary64 values s * m * 2^e with 2^52 <= m < 2^53 (m = 0 for   *)
(* zero) and round-to-nearest-even; the values of the program stay far     *)
(* from the subnormal and overflow ranges.                                 *)
(***************************************************************************)
FZero == [s |-> 1, m |-> <<>>, e |-> 0]

\* s * r * 2^e for r of 53 bits, or of 54 bits when rounding up has carried
Renormalize(r, e, s) ==
    IF BitLen(r) = 54
    THEN [s |-> s, m |-> BShiftRight(r, 1), e |-> e + 1]
    ELSE [s |-> s, m |-> r, e |-> e]

\* round to nearest, ties to even: c compares the dropped bits with one half
RoundUp(q, c, sticky) ==
    IF c = 1 \/ (c = 0 /\ (sticky \/ BOdd(q))) THEN BAdd(q, <<1>>) ELSE q

\* the k low bits of n, compared with one half; q is n without them
HalfCmp(n, q, k) == BCmp(BSub(n, BShiftLeft(q, k)), BShiftLeft(<<1>>, k - 1))

RoundShifted(n, q, k, e, sticky, s) ==
    Renormalize(RoundUp(q, HalfCmp(n, q, k), sticky), e + k, s)

RoundBits(n, len, e, sticky, s) ==
    IF len <= 53
    THEN [s |-> s, m |-> BShiftLeft(n, 53 - len), e |-> e - (53 - len)]
    ELSE RoundShifted(n, BShiftRight(n, len - 53), len - 53, e, sticky, s)

\* s * (n + fraction) * 2^e rounded to 53 bits; sticky says the fraction is not 0
Round53(n, e, sticky, s) ==
    IF Len(n) = 0 THEN FZero ELSE RoundBits(n, BitLen(n), e, sticky, s)

RoundQuotient(d) == Round53(d.q, -75, d.r # 0, 1)

\* the double nearest to p / q, for naturals p < 2^15 and 0 < q < 2^15: a decimal
\* literal, or the quotient of two exactly representable integers
FromRatio(p, q) ==
    IF p = 0 THEN FZero ELSE RoundQuotient(BDivSmall(BShiftLeft(<<p>>, 75), q))

FNeg(x) == [x EXCEPT !.s = -x.s]

\* sa * a * 2^e + sb * b * 2^e, where c compares a with b
AddCompared(sa, a, sb, b, c, e) ==
    Round53(IF sa = sb THEN BAdd(a, b) ELSE IF c >= 0 THEN BSub(a, b) ELSE BSub(b, a),
            e, FALSE, IF sa = sb \/ c >= 0 THEN sa ELSE sb)

AddAligned(sa, a, sb, b, e) == AddCompared(sa, a, sb, b, BCmp(a, b), e)

FAddAt(x, y, e) ==
    AddAligned(x.s, BShiftLeft(x.m, x.e - e), y.s, BShiftLeft(y.m, y.e - e), e)

FAdd(x, y) ==
    IF Len(x.m) = 0 THEN y
    ELSE IF Len(y.m) = 0 THEN x
    ELSE FAddAt(x, y, Min2(x.e, y.e))

FSub(x, y) == FAdd(x, FNeg(y))

FMul(x, y) ==
    IF Len(x.m) = 0 \/ Len(y.m) = 0 THEN FZero
    ELSE Round53(BMul(x.m, y.m), x.e + y.e, FALSE, x.s * y.s)

FAbs(x) == [x EXCEPT !.s = 1]

\* -1, 0 or 1 as x < y, x = y, x > y; the significands have 53 bits, so the
\* exponents decide unless they are equal
FCmp(x, y) ==
    LET sx == IF Len(x.m) = 0 THEN 0 ELSE x.s
        sy == IF Len(y.m) = 0 THEN 0 ELSE y.s
    IN  IF sx # sy THEN (IF sx > sy THEN 1 ELSE -1)
        ELSE IF sx = 0 THEN 0
        ELSE IF x.e # y.e THEN (IF x.e > y.e THEN sx ELSE -sx)
        ELSE sx * BCmp(x.m, y.m)

(***************************************************************************)
(* Python floats.                                                          *)
(***************************************************************************)
\* the float p / q, standing for dec units of its quantity
Num(dec, p, q) == [dec |-> dec, fl |-> FromRatio(p, q)]

\* the int 0 and the float 0.0
NumZero == [dec |-> 0, fl |-> FZero]

\* the literals with two decimals, used as feature values, thresholds and increments
FeatureLiterals == [h \in 0..100 |-> Num(h, h, 100)]

Feature(h) == FeatureLiterals[h]

\* the literals with one decimal, used as weights
WeightLiterals == [t \in 0..20 |-> Num(t, t, 10)]

Weight(t) == WeightLiterals[t]

\* n / 10.0 as a feature value
TenthsLiterals == [n \in 0..20 |-> Num(10 * n, n, 10)]

Tenths(n) == IF n \in DOMAIN TenthsLiterals THEN TenthsLiterals[n] ELSE Num(10 * n, n, 10)

\* 1.0 as a feature value
One == Num(100, 1, 1)

\* 0.1 as a difference of weighted evidence scores
TieThreshold == Num(100000, 1, 10)

NAdd(x, y) == [dec |-> x.dec + y.dec, fl |-> FAdd(x.fl, y.fl)]

NSub(x, y) == [dec |-> x.dec - y.dec, fl |-> FSub(x.fl, y.fl)]

NMul(x, y) == [dec |-> x.dec * y.dec, fl |-> FMul(x.fl, y.fl)]

NAbs(x) == [dec |-> Abs(x.dec), fl |-> FAbs(x.fl)]

\* the comparison the interpreter makes: -1, 0 or 1
NCmp(x, y) == FCmp(x.fl, y.fl)

\* max(x, y) and min(x, y): the first argument wins when they are equal
NMax(x, y) == IF NCmp(y, x) > 0 THEN y ELSE x

NMin(x, y) == IF NCmp(y, x) < 0 THEN y ELSE x

\* max(<generator over the list>, default=d)
MaxDefault(vals, d) ==
    IF Len(vals) = 0 THEN d
    ELSE LET found == {vals[k] : k \in 1..Len(vals)}
         IN  CHOOSE m \in found : \A v \in found : NCmp(v, m) <= 0

\* max(d.values())
MaxValues(d) ==
    LET found == {d[k] : k \in DOMAIN d}
    IN  CHOOSE m \in found : \A v \in found : NCmp(v, m) <= 0

(***************************************************************************)
(* intent_router_node                                                      *)
(***************************************************************************)
DefaultWeights == [sequence |-> Weight(10), payload |-> Weight(10), behavior |-> Weight(10)]

BoostedWeight == Weight(15)

\* query = (state.get("query") or "").lower()
RouterQuery(s) == Lower(Get(s, "query", <<>>))

\* variant: the credential/login test placed before the sql test
intent_router_node_login_first(s) ==
    LET query == RouterQuery(s)
        s0 == SetKey(SetKey(SetKey(s, "analysis_mode", "full"),
                            "priority_weights", DefaultWeights),
                     "explanation_level", "standard")
        s1 == IF Contains(K_credential, query) \/ Contains(K_login, query)
              THEN SetKey(SetKey(s0, "analysis_mode", "sequence_focus"),
                          "priority_weights", [DefaultWeights EXCEPT !.sequence = BoostedWeight])
              ELSE IF Contains(K_sql, query)
              THEN SetKey(SetKey(s0, "analysis_mode", "payload_focus"),
                          "priority_weights", [DefaultWeights EXCEPT !.payload = BoostedWeight])
              ELSE IF Contains(K_behavior, query)
              THEN SetKey(SetKey(s0, "analysis_mode", "behavior_focus"),
                          "priority_weights", [DefaultWeights EXCEPT !.behavior = BoostedWeight])
              ELSE s0
    IN  IF Contains(K_explain, query) THEN SetKey(s1, "explanation_level", "detailed") ELSE s1

intent_router_node(s) ==
    LET query == RouterQuery(s)
        s0 == SetKey(SetKey(SetKey(s, "analysis_mode", "full"),
                            "priority_weights", DefaultWeights),
                     "explanation_level", "standard")
        s1 == IF Contains(K_sql, query)
              THEN SetKey(SetKey(s0, "analysis_mode", "payload_focus"),
                          "priority_weights", [DefaultWeights EXCEPT !.payload = BoostedWeight])
              ELSE IF Contains(K_credential, query) \/ Contains(K_login, query)
              THEN SetKey(SetKey(s0, "analysis_mode", "sequence_focus"),
                          "priority_weights", [DefaultWeights EXCEPT !.sequence = BoostedWeight])
              ELSE IF Contains(K_behavior, query)
              THEN SetKey(SetKey(s0, "analysis_mode", "behavior_focus"),
                          "priority_weights", [DefaultWeights EXCEPT !.behavior = BoostedWeight])
              ELSE s0
    IN  IF Contains(K_explain, query) THEN SetKey(s1, "explanation_level", "detailed") ELSE s1

(***************************************************************************)
(* log_ingest_node                                                         *)
(***************************************************************************)
log_ingest_node(s) ==
    SetKey(SetKey(s, "logs", Get(s, "logs", <<>>)),
           "selected_vuln", Get(s, "selected_vuln", <<>>))

(***************************************************************************)
(* sequence_analyzer_node                                                  *)
(***************************************************************************)
login_velocity(logs) ==
    MaxDefault([k \in 1..Len(logs) |->
                   IF FieldEq(logs[k], "endpoint", P_api_login)
                      /\ FieldEq(logs[k], "response_code", 401) THEN Feature(90) ELSE Feature(10)], Feature(10))

sequential_object_access(logs) ==
    MaxDefault([k \in 1..Len(logs) |->
                   IF Contains(P_api_users, Get(logs[k], "endpoint", <<>>)) THEN Feature(85) ELSE Feature(10)], Feature(10))

\* min(len(logs) / 10.0, 1.0)
request_frequency(logs) == NMin(Tenths(Len(logs)), One)

repeated_action_score(logs) ==
    MaxDefault([k \in 1..Len(logs) |->
                   IF FieldEq(logs[k], "endpoint", P_api_orders) THEN Feature(80) ELSE Feature(10)], Feature(10))

sequence_analyzer_node(s) ==
    LET logs == s["logs"]
    IN  SetKey(s, "sequence_features",
               [login_velocity |-> login_velocity(logs),
                sequential_object_access |-> sequential_object_access(logs),
                request_frequency |-> request_frequency(logs),
                repeated_action_score |-> repeated_action_score(logs)])

(***************************************************************************)
(* payload_inspector_node                                                  *)
(***************************************************************************)
\* params = str(e.get("params", "")) + str(e.get("body", ""))
ParamsText(e) == Get(e, "params", <<>>) \o Get(e, "body", <<>>)

\* variant: last event wins, a non-matching event resets the score
ScanSqlLastWins(e, sql) ==
    IF Contains(M_or_1_1, ParamsText(e)) \/ Contains(M_union_select, ParamsText(e))
    THEN Feature(95) ELSE Feature(10)

\* one iteration of the for loop: the two locals after event e
ScanSql(e, sql) ==
    IF Contains(M_or_1_1, ParamsText(e)) \/ Contains(M_union_select, ParamsText(e))
    THEN Feature(95) ELSE sql

ScanField(e, unexpected) ==
    IF Contains(M_isAdmin, ParamsText(e)) \/ Contains(M_role, ParamsText(e))
    THEN Feature(90) ELSE unexpected

PayloadFeatures(sql, unexpected) ==
    [sql_injection_score |-> sql,
     unexpected_field_score |-> unexpected,
     command_injection_score |-> Feature(10)]

RECURSIVE ScanFrom(_, _, _, _)
\* the locals after the loop has run over logs[k..]
ScanFrom(logs, k, sql, unexpected) ==
    IF k > Len(logs) THEN PayloadFeatures(sql, unexpected)
    ELSE ScanFrom(logs, k + 1, ScanSql(logs[k], sql), ScanField(logs[k], unexpected))

payload_inspector_node(s) ==
    SetKey(s, "payload_features", ScanFrom(s["logs"], 1, Feature(10), Feature(10)))

(***************************************************************************)
(* behavior_profiler_node                                                  *)
(***************************************************************************)
role_deviation_score(logs) ==
    MaxDefault([k \in 1..Len(logs) |->
                   IF FieldEq(logs[k], "user_id", 456) THEN Feature(75) ELSE Feature(20)], Feature(20))

user_agent_anomaly_score(logs) ==
    MaxDefault([k \in 1..Len(logs) |->
                   IF Contains(M_sqlmap, Get(logs[k], "user_agent", <<>>)) THEN Feature(80) ELSE Feature(20)], Feature(20))

geo_deviation_score == Feature(60)

\* variant: the profiler consults the payload features when they are already there
behavior_profiler_node_reads_payload(s) ==
    LET logs == s["logs"]
        seen == NCmp(Get(Get(s, "payload_features", <<>>), "sql_injection_score", NumZero),
                     Feature(70)) > 0
    IN  SetKey(s, "behavior_features",
               [geo_deviation_score |-> geo_deviation_score,
                role_deviation_score |-> role_deviation_score(logs),
                user_agent_anomaly_score |->
                    IF seen THEN Feature(80) ELSE user_agent_anomaly_score(logs)])

behavior_profiler_node(s) ==
    LET logs == s["logs"]
    IN  SetKey(s, "behavior_features",
               [geo_deviation_score |-> geo_deviation_score,
                role_deviation_score |-> role_deviation_score(logs),
                user_agent_anomaly_score |-> user_agent_anomaly_score(logs)])

(***************************************************************************)
(* risk_aggregator_node                                                    *)
(***************************************************************************)
\* insertion order of the keys of the three feature dicts
SequenceKeys == <<"login_velocity", "sequential_object_access", "request_frequency",
                  "repeated_action_score">>

PayloadKeys == <<"sql_injection_score", "unexpected_field_score", "command_injection_score">>

BehaviorKeys == <<"geo_deviation_score", "role_deviation_score", "user_agent_anomaly_score">>

\* keys of {**sf, **pf, **bf} in iteration order
CombinedKeys(sf, pf, bf) ==
    LET present(keys, d) == SelectSeq(keys, LAMBDA k : k \in DOMAIN d)
        fresh(keys, seen) == SelectSeq(keys, LAMBDA k : k \notin seen)
    IN  present(SequenceKeys, sf)
          \o fresh(present(PayloadKeys, pf), DOMAIN sf)
          \o fresh(present(BehaviorKeys, bf), DOMAIN sf \cup DOMAIN pf)

Combined(sf, pf, bf) == Merge(Merge(sf, pf), bf)

\* variant: threshold included
IsRiskFactorInclusive(v) == NCmp(v, Feature(70)) >= 0

IsRiskFactor(v) == NCmp(v, Feature(70)) > 0

\* variant: the priority weights are not applied
WeightedRiskUnweighted(weights, sequence_score, payload_score, behavior_score) ==
    NAdd(NAdd(NMul(NMul(Weight(4), Weight(10)), sequence_score),
              NMul(NMul(Weight(4), Weight(10)), payload_score)),
         NMul(NMul(Weight(2), Weight(10)), behavior_score))

\* variant: the behavior term is left out of the sum
WeightedRiskNoBehavior(weights, sequence_score, payload_score, behavior_score) ==
    NAdd(NMul(NMul(Weight(4), weights["sequence"]), sequence_score),
         NMul(NMul(Weight(4), weights["payload"]), payload_score))

\* 0.4 * w.sequence * seq + 0.4 * w.payload * pay + 0.2 * w.behavior * beh
WeightedRisk(weights, sequence_score, payload_score, behavior_score) ==
    LET sequence_weight == NMul(Weight(4), weights["sequence"])
        payload_weight == NMul(Weight(4), weights["payload"])
        behavior_weight == NMul(Weight(2), weights["behavior"])
    IN  NAdd(NAdd(NMul(sequence_weight, sequence_score),
                  NMul(payload_weight, payload_score)),
             NMul(behavior_weight, behavior_score))

risk_aggregator_node(s) ==
    LET sf == s["sequence_features"]
        pf == s["payload_features"]
        bf == s["behavior_features"]
        combined == Combined(sf, pf, bf)
        s1 == SetKey(s, "risk_score",
                     WeightedRisk(s["priority_weights"], MaxValues(sf), MaxValues(pf), MaxValues(bf)))
    IN  SetKey(s1, "risk_factors",
               SelectSeq(CombinedKeys(sf, pf, bf), LAMBDA k : IsRiskFactor(combined[k])))

(***************************************************************************)
(* mini_agent_classifier_node                                              *)
(***************************************************************************)
\* hypothesis_definitions, in the insertion order of the dict
hypothesis_definitions(sf, pf, bf) ==
    << [label |-> "SQL_INJECTION",
        primary_name |-> "sql_injection_score",
        primary_score |-> Get(pf, "sql_injection_score", NumZero),
        support_keys |-> <<"unexpected_field_score", "user_agent_anomaly_score">>,
        contradict_keys |-> <<"login_velocity", "sequential_object_access">>],
       [label |-> "CREDENTIAL_STUFFING",
        primary_name |-> "login_velocity",
        primary_score |-> Get(sf, "login_velocity", NumZero),
        support_keys |-> <<"request_frequency", "geo_deviation_score">>,
        contradict_keys |-> <<"sql_injection_score", "sequential_object_access">>],
       [label |-> "POSSIBLE_IDOR",
        primary_name |-> "sequential_object_access",
        primary_score |-> Get(sf, "sequential_object_access", NumZero),
        support_keys |-> <<"role_deviation_score", "request_frequency">>,
        contradict_keys |-> <<"sql_injection_score", "login_velocity">>],
       [label |-> "BUSINESS_LOGIC_ABUSE",
        primary_name |-> "repeated_action_score",
        primary_score |-> Get(sf, "repeated_action_score", NumZero),
        support_keys |-> <<"request_frequency", "role_deviation_score">>,
        contradict_keys |-> <<"sql_injection_score", "login_velocity">> ] >>

\* variant: the primary filter set at 0.8
PrimarySkippedHigh(primary_score) == NCmp(primary_score, Feature(80)) <= 0

\* if primary_score <= 0.5: continue
PrimarySkipped(primary_score) == NCmp(primary_score, Feature(50)) <= 0

\* variant: the supporting keys tested against the contradiction threshold
SupportFiresHigh(val) == NCmp(val, Feature(70)) > 0

SupportFires(val) == NCmp(val, Feature(50)) > 0

ContradictFires(val) == NCmp(val, Feature(70)) > 0

SupportBonus == Feature(10)

ContradictPenalty == Feature(15)

\* evidence = {"support": [primary_name], "contradict": [], "score": primary_score}
InitialEvidence(defn) ==
    [support |-> <<defn.primary_name>>, contradict |-> <<>>, score |-> defn.primary_score]

RECURSIVE SupportLoop(_, _, _, _)
SupportLoop(keys, k, evidence, all_features) ==
    IF k > Len(keys) THEN evidence
    ELSE SupportLoop(keys, k + 1,
                     IF SupportFires(Get(all_features, keys[k], NumZero))
                     THEN [evidence EXCEPT !.support = Append(@, keys[k]),
                                           !.score = NAdd(@, SupportBonus)]
                     ELSE evidence,
                     all_features)

RECURSIVE ContradictLoop(_, _, _, _)
ContradictLoop(keys, k, evidence, all_features) ==
    IF k > Len(keys) THEN evidence
    ELSE ContradictLoop(keys, k + 1,
                        IF ContradictFires(Get(all_features, keys[k], NumZero))
                        THEN [evidence EXCEPT !.contradict = Append(@, keys[k]),
                                              !.score = NSub(@, ContradictPenalty)]
                        ELSE evidence,
                        all_features)

\* the evidence of one hypothesis before line 210
EvidenceBeforeClamp(defn, all_features) ==
    ContradictLoop(defn.contradict_keys, 1,
                   SupportLoop(defn.support_keys, 1, InitialEvidence(defn), all_features),
                   all_features)

\* variant: the clamped score is not multiplied by risk_score
ClampOnly(score, risk_score) == NMul(NMax(score, NumZero), Num(10000, 1, 1))

\* evidence["score"] = max(evidence["score"], 0) * risk_score
ClampAndWeight(score, risk_score) == NMul(NMax(score, NumZero), risk_score)

RECURSIVE EvaluateFrom(_, _, _, _)
\* the list `evaluated` after the loop has run over defs[k..]
EvaluateFrom(defs, k, all_features, risk_score) ==
    IF k > Len(defs) THEN <<>>
    ELSE IF PrimarySkipped(defs[k].primary_score)
         THEN EvaluateFrom(defs, k + 1, all_features, risk_score)
         ELSE LET ev == EvidenceBeforeClamp(defs[k], all_features)
              IN  << [label |-> defs[k].label,
                      evidence |-> [ev EXCEPT !.score = ClampAndWeight(@, risk_score)]] >>
                    \o EvaluateFrom(defs, k + 1, all_features, risk_score)

Evaluate(s) ==
    LET sf == s["sequence_features"]
        pf == s["payload_features"]
        bf == s["behavior_features"]
    IN  EvaluateFrom(hypothesis_definitions(sf, pf, bf), 1, Combined(sf, pf, bf), s["risk_score"])

RECURSIVE SortByScoreDescending(_)
\* evaluated.sort(key=score, reverse=True): stable, equal scores keep their order
SortByScoreDescending(list) ==
    IF Len(list) = 0 THEN <<>>
    ELSE LET first == CHOOSE k \in 1..Len(list) :
                          /\ \A j \in 1..Len(list) :
                               NCmp(list[j].evidence.score, list[k].evidence.score) <= 0
                          /\ \A j \in 1..(k - 1) :
                               NCmp(list[j].evidence.score, list[k].evidence.score) < 0
             others == [j \in 1..(Len(list) - 1) |-> IF j < first THEN list[j] ELSE list[j + 1]]
         IN  <<list[first]>> \o SortByScoreDescending(others)

\* abs(evaluated[0].score - evaluated[1].score) <= 0.1
WithinTieBreak(a, b) == NCmp(NAbs(NSub(a, b)), TieThreshold) <= 0

\* the list `evaluated` when the node returns: unsorted only when it is empty
EvaluatedAtReturn(s) == SortByScoreDescending(Evaluate(s))

\* the part of the node after the loop, on the list it has left
SelectAlert(s, sorted) ==
    IF Len(sorted) = 0
    THEN SetKey(SetKey(SetKey(s, "alert_type", "None"), "alert_confidence", NumZero),
                "analysis_summary",
                [selected_alert |-> "None", confidence |-> NumZero,
                 supporting_evidence |-> <<>>, contradicting_evidence |-> <<>>])
    ELSE LET top_evidence == sorted[1].evidence
             top_label == IF Len(sorted) >= 2
                             /\ WithinTieBreak(sorted[1].evidence.score, sorted[2].evidence.score)
                          THEN "MULTI_VECTOR_ATTACK"
                          ELSE sorted[1].label
         IN  SetKey(SetKey(SetKey(s, "alert_type", top_label),
                           "alert_confidence", top_evidence.score),
                    "analysis_summary",
                    [selected_alert |-> top_label,
                     confidence |-> top_evidence.score,
                     supporting_evidence |-> top_evidence.support,
                     contradicting_evidence |-> top_evidence.contradict])

mini_agent_classifier_node(s) == SelectAlert(s, EvaluatedAtReturn(s))

(***************************************************************************)
(* Inputs: the queries and the event batches a request is drawn from.      *)
(***************************************************************************)
Q_sql_login == <<"s", "q", "l", " ", "l", "o", "g", "i", "n", " ", "i", "s", "s", "u", "e">>
Q_explain_sql == <<"E", "x", "p", "l", "a", "i", "n", " ", "S", "Q", "L">>
Q_credential == <<"c", "r", "e", "d", "e", "n", "t", "i", "a", "l", " ", "c", "h", "e", "c", "k">>
Q_login_behavior == <<"L", "O", "G", "I", "N", " ", "b", "e", "h", "a", "v", "i", "o", "r">>
Q_explain_behavior == <<"e", "x", "p", "l", "a", "i", "n", " ", "b", "e", "h", "a", "v", "i", "o", "r">>
Q_status == <<"s", "t", "a", "t", "u", "s", " ", "r", "e", "p", "o", "r", "t">>
U_users_42 == <<"/", "a", "p", "i", "/", "u", "s", "e", "r", "s", "/", "4", "2">>
U_items == <<"/", "a", "p", "i", "/", "i", "t", "e", "m", "s">>
T_or == <<"i", "d", "=", "1", " ", "O", "R", " ", "1", "=", "1">>
T_union_head == <<"q", "=", "U", "N", "I", "O", "N", " ">>
T_select_tail == <<"S", "E", "L", "E", "C", "T", " ", "x">>
T_isAdmin == <<"i", "s", "A", "d", "m", "i", "n", "=", "t", "r", "u", "e">>
T_role == <<"r", "o", "l", "e", "=", "u", "s", "e", "r">>
T_ua_sqlmap == <<"s", "q", "l", "m", "a", "p", "/", "1", ".", "7">>
T_ua_curl == <<"c", "u", "r", "l">>

Queries == {<<>>, Q_sql_login, Q_explain_sql, Q_credential, Q_login_behavior,
            Q_explain_behavior, Q_status}

E_plain == [endpoint |-> U_items, response_code |-> 200]

E_login_401 == [endpoint |-> P_api_login, response_code |-> 401, user_agent |-> T_ua_curl]

\* a failed login whose params carry the OR 1=1 marker
E_login_sqli == [endpoint |-> P_api_login, response_code |-> 401, params |-> T_or]

E_login_200 == [endpoint |-> P_api_login, response_code |-> 200, body |-> T_role]

E_users == [endpoint |-> U_users_42, response_code |-> 200, user_id |-> 456]

E_orders == [endpoint |-> P_api_orders, response_code |-> 200, user_id |-> 7]

\* the marker UNION SELECT only appears in params + body
E_union == [endpoint |-> U_items, params |-> T_union_head, body |-> T_select_tail,
            user_agent |-> T_ua_sqlmap]

\* no endpoint, no response_code
E_admin == [params |-> T_or, body |-> T_isAdmin]

EventPool == {E_plain, E_login_401, E_login_sqli, E_login_200, E_users, E_orders, E_union,
              E_admin}

MaxCore == 2

MaxPad == 9

Padding(p) == [k \in 1..p |-> E_plain]

\* with up to two arbitrary events in front, these paddings give every length
\* from 0 to 8, and lengths from 10 on, where request_frequency stops at 1.0
PadSizes == {0, 3, 6, MaxPad}

\* up to MaxCore arbitrary events followed by plain ones
Batches == {core \o Padding(p) :
              core \in UNION {[1..n -> EventPool] : n \in 0..MaxCore}, p \in PadSizes}

\* input_data of run_agent: logs, query and selected_vuln are each optional
InputData ==
    {[logs |-> b, query |-> q] : b \in Batches, q \in Queries}
      \cup {[logs |-> b] : b \in Batches}
      \cup {[query |-> q, selected_vuln |-> K_sql] : q \in Queries}

\* graph.invoke({**input_data, "client": client})
run_agent(input_data) == SetKey(input_data, "client", "client")

(***************************************************************************)
(* The compiled graph: one action per node, in the order of the edges.     *)
(***************************************************************************)
Init ==
    /\ state \in {run_agent(d) : d \in InputData}
    /\ pc = "log_ingest"
    /\ idx = 0
    /\ sql_injection_score = NumZero
    /\ unexpected_field_score = NumZero
    /\ evaluated = <<>>

locals == <<idx, sql_injection_score, unexpected_field_score>>

LogIngest ==
    /\ pc = "log_ingest"
    /\ state' = log_ingest_node(state)
    /\ pc' = "intent_router"
    /\ UNCHANGED <<locals, evaluated>>

IntentRouter ==
    /\ pc = "intent_router"
    /\ state' = intent_router_node(state)
    /\ pc' = "sequence_analyzer"
    /\ UNCHANGED <<locals, evaluated>>

SequenceAnalyzerBody ==
    /\ state' = sequence_analyzer_node(state)
    /\ UNCHANGED <<locals, evaluated>>

SequenceAnalyzer ==
    /\ pc = "sequence_analyzer"
    /\ SequenceAnalyzerBody
    /\ pc' = "payload_inspector"

\* lines 88-91: the locals are initialised
PayloadBeginBody ==
    /\ idx = 0
    /\ idx' = 1
    /\ sql_injection_score' = Feature(10)
    /\ unexpected_field_score' = Feature(10)
    /\ UNCHANGED <<state, evaluated>>

\* lines 92-97: one iteration of the loop over logs
PayloadScanBody ==
    /\ idx \in 1..Len(state["logs"])
    /\ sql_injection_score' = ScanSql(state["logs"][idx], sql_injection_score)
    /\ unexpected_field_score' = ScanField(state["logs"][idx], unexpected_field_score)
    /\ idx' = idx + 1
    /\ UNCHANGED <<state, evaluated>>

\* lines 99-104: the features are stored
PayloadEndBody ==
    /\ idx = Len(state["logs"]) + 1
    /\ "payload_features" \notin DOMAIN state
    /\ state' = SetKey(state, "payload_features",
                       PayloadFeatures(sql_injection_score, unexpected_field_score))
    /\ UNCHANGED <<locals, evaluated>>

PayloadBegin == pc = "payload_inspector" /\ PayloadBeginBody /\ UNCHANGED pc

PayloadScan == pc = "payload_inspector" /\ PayloadScanBody /\ UNCHANGED pc

PayloadEnd == pc = "payload_inspector" /\ PayloadEndBody /\ pc' = "behavior_profiler"

BehaviorProfilerBody ==
    /\ state' = behavior_profiler_node(state)
    /\ UNCHANGED <<locals, evaluated>>

BehaviorProfiler ==
    /\ pc = "behavior_profiler"
    /\ BehaviorProfilerBody
    /\ pc' = "risk_aggregator"

RiskAggregator ==
    /\ pc = "risk_aggregator"
    /\ state' = risk_aggregator_node(state)
    /\ pc' = "mini_agent_classifier"
    /\ UNCHANGED <<locals, evaluated>>

MiniAgentClassifier ==
    /\ pc = "mini_agent_classifier"
    /\ evaluated' = EvaluatedAtReturn(state)
    /\ state' = SelectAlert(state, evaluated')
    /\ pc' = "END"
    /\ UNCHANGED locals

Next ==
    \/ LogIngest
    \/ IntentRouter
    \/ SequenceAnalyzer
    \/ PayloadBegin
    \/ PayloadScan
    \/ PayloadEnd
    \/ BehaviorProfiler
    \/ RiskAggregator
    \/ MiniAgentClassifier

Spec == Init /\ [][Next]_vars

(***************************************************************************)
(* The three extractor nodes scheduled in any order and interleaved,       *)
(* between the intent router and the risk aggregator.                      *)
(***************************************************************************)
IntentRouterFork ==
    /\ pc = "intent_router"
    /\ state' = intent_router_node(state)
    /\ pc' = "extractors"
    /\ UNCHANGED <<locals, evaluated>>

AnySequenceAnalyzer ==
    /\ pc = "extractors"
    /\ "sequence_features" \notin DOMAIN state
    /\ SequenceAnalyzerBody
    /\ UNCHANGED pc

AnyPayloadBegin == pc = "extractors" /\ PayloadBeginBody /\ UNCHANGED pc

AnyPayloadScan == pc = "extractors" /\ PayloadScanBody /\ UNCHANGED pc

AnyPayloadEnd == pc = "extractors" /\ PayloadEndBody /\ UNCHANGED pc

AnyBehaviorProfiler ==
    /\ pc = "extractors"
    /\ "behavior_features" \notin DOMAIN state
    /\ BehaviorProfilerBody
    /\ UNCHANGED pc

ExtractorsJoin ==
    /\ pc = "extractors"
    /\ {"sequence_features", "payload_features", "behavior_features"} \subseteq DOMAIN state
    /\ pc' = "risk_aggregator"
    /\ UNCHANGED <<state, locals, evaluated>>

NextAnyOrder ==
    \/ LogIngest
    \/ IntentRouterFork
    \/ AnySequenceAnalyzer
    \/ AnyPayloadBegin
    \/ AnyPayloadScan
    \/ AnyPayloadEnd
    \/ AnyBehaviorProfiler
    \/ ExtractorsJoin
    \/ RiskAggregator
    \/ MiniAgentClassifier

SpecAnyOrder == Init /\ [][NextAnyOrder]_vars

\* the record the graph returns for an input: the nodes composed along the edges
FixedOrderResult(input) ==
    mini_agent_classifier_node(
      risk_aggregator_node(
        behavior_profiler_node(
          payload_inspector_node(
            sequence_analyzer_node(
              intent_router_node(
                log_ingest_node(input)))))))

(***************************************************************************)
(* The classifier alone, on feature values and risk scores that need not   *)
(* come from the extractors.                                               *)
(***************************************************************************)
PrimaryValues == {10, 50, 60, 70, 80, 90}

\* risk_score 1.0 and 1.1
RiskValues == {Num(10000, 1, 1), Num(11000, 11, 10)}

ClassifierInputs ==
    {[sequence_features |-> [login_velocity |-> Feature(lv),
                             sequential_object_access |-> Feature(soa),
                             request_frequency |-> Feature(rf),
                             repeated_action_score |-> Feature(ras)],
      payload_features |-> [sql_injection_score |-> Feature(sql),
                            unexpected_field_score |-> Feature(ufs),
                            command_injection_score |-> Feature(10)],
      behavior_features |-> [geo_deviation_score |-> Feature(60),
                             role_deviation_score |-> Feature(rds),
                             user_agent_anomaly_score |-> Feature(uas)],
      risk_score |-> risk] :
        lv \in PrimaryValues, soa \in PrimaryValues, ras \in PrimaryValues,
        sql \in PrimaryValues, rf \in {50, 60}, ufs \in {10, 90}, rds \in {20, 75},
        uas \in {20, 80}, risk \in RiskValues}

InitClassifier ==
    /\ state \in ClassifierInputs
    /\ pc = "mini_agent_classifier"
    /\ idx = 0
    /\ sql_injection_score = NumZero
    /\ unexpected_field_score = NumZero
    /\ evaluated = <<>>

NextClassifier == MiniAgentClassifier

SpecClassifier == InitClassifier /\ [][NextClassifier]_vars

(***************************************************************************)
(* Properties.                                                             *)
(***************************************************************************)
Range(seq) == {seq[k] : k \in 1..Len(seq)}

NoDuplicates(seq) == \A j, k \in 1..Len(seq) : seq[j] = seq[k] => j = k

AllFeatures(s) == Combined(s["sequence_features"], s["payload_features"], s["behavior_features"])

Catalogue(s) == hypothesis_definitions(s["sequence_features"], s["payload_features"], s["behavior_features"])

FiredKeys(keys, feats, threshold) == SelectSeq(keys, LAMBDA k : feats[k].dec > threshold)

FiredCount(keys, feats, threshold) == Cardinality({k \in 1..Len(keys) : feats[keys[k]].dec > threshold})

Summary == state["analysis_summary"]

HasSqlMarker(e) == Contains(M_or_1_1, ParamsText(e)) \/ Contains(M_union_select, ParamsText(e))

HasFieldMarker(e) == Contains(M_isAdmin, ParamsText(e)) \/ Contains(M_role, ParamsText(e))

Reverse(seq) == [k \in 1..Len(seq) |-> seq[Len(seq) + 1 - k]]

\* C1: when the classifier has evaluated at least one hypothesis, alert_confidence
\* and the evidence lists are those of a highest-scoring hypothesis; alert_type is
\* MULTI_VECTOR_ATTACK if there are at least two and the two highest scores differ
\* by at most 0.1 (0.1 included), and the label of the highest-scoring one otherwise.
C1_TieBreak ==
    (pc = "END" /\ Len(evaluated) >= 1) =>
        LET n == Len(evaluated)
            score(k) == evaluated[k].evidence.score.dec
            top == CHOOSE k \in 1..n : \A j \in 1..n : score(j) <= score(k)
            tie == \E j \in (1..n) \ {top} : score(top) - score(j) <= 100000
        IN  /\ state["alert_confidence"].dec = score(top)
            /\ \E k \in 1..n :
                 /\ score(k) = score(top)
                 /\ Summary.supporting_evidence = evaluated[k].evidence.support
                 /\ Summary.contradicting_evidence = evaluated[k].evidence.contradict
            /\ tie => state["alert_type"] = "MULTI_VECTOR_ATTACK"
            /\ ~tie => state["alert_type"] = evaluated[top].label

\* C2 as stated: the evidence lists of the selected hypothesis hold exactly its
\* supporting keys above 0.5 and its contradicting keys above 0.7, nothing else.
C2_Original ==
    (pc = "END" /\ Len(evaluated) >= 1) =>
        LET defn == CHOOSE d \in Range(Catalogue(state)) : d.label = evaluated[1].label
        IN  /\ Summary.supporting_evidence = FiredKeys(defn.support_keys, AllFeatures(state), 50)
            /\ Summary.contradicting_evidence = FiredKeys(defn.contradict_keys, AllFeatures(state), 70)

\* C2 amended: supporting_evidence is the primary key of the selected hypothesis
\* followed by its supporting keys above 0.5; contradicting_evidence is exactly
\* its contradicting keys above 0.7.
C2_EvidenceLists ==
    (pc = "END" /\ Len(evaluated) >= 1) =>
        LET defn == CHOOSE d \in Range(Catalogue(state)) : d.label = evaluated[1].label
        IN  /\ Summary.supporting_evidence =
                 <<defn.primary_name>> \o FiredKeys(defn.support_keys, AllFeatures(state), 50)
            /\ Summary.contradicting_evidence = FiredKeys(defn.contradict_keys, AllFeatures(state), 70)

\* a hypothesis was selected with a supporting and a contradicting key recorded
C2_Witness ==
    /\ pc = "END"
    /\ Len(evaluated) >= 1
    /\ Len(Summary.supporting_evidence) >= 2
    /\ Len(Summary.contradicting_evidence) >= 1

\* C3: the candidates are exactly the hypotheses whose primary value is above 0.5,
\* a candidate's score is max(primary + 0.1 * fired supports - 0.15 * fired
\* contradictions, 0) * risk_score, and alert_confidence is the largest of them.
C3_CandidateScores ==
    pc = "END" =>
        LET defs == Catalogue(state)
            feats == AllFeatures(state)
            cand == {k \in 1..Len(defs) : feats[defs[k].primary_name].dec > 50}
            raw(k) == feats[defs[k].primary_name].dec
                        + 10 * FiredCount(defs[k].support_keys, feats, 50)
                        - 15 * FiredCount(defs[k].contradict_keys, feats, 70)
            final(k) == (IF raw(k) > 0 THEN raw(k) ELSE 0) * state["risk_score"].dec
        IN  /\ Len(evaluated) = Cardinality(cand)
            /\ {evaluated[j].label : j \in 1..Len(evaluated)} = {defs[k].label : k \in cand}
            /\ \A j \in 1..Len(evaluated) : \A k \in cand :
                 evaluated[j].label = defs[k].label => evaluated[j].evidence.score.dec = final(k)
            /\ cand # {} =>
                 /\ \E k \in cand : state["alert_confidence"].dec = final(k)
                 /\ \A k \in cand : final(k) <= state["alert_confidence"].dec

\* two candidates, one of them with a support and a contradiction counted
C3_Witness ==
    /\ pc = "END"
    /\ Len(evaluated) >= 2
    /\ \E j \in 1..Len(evaluated) :
         /\ Len(evaluated[j].evidence.support) >= 2
         /\ Len(evaluated[j].evidence.contradict) >= 1

\* C4: after the intent router priority_weights has exactly the keys sequence,
\* payload and behavior, each 1.0 or 1.5 and at most one 1.5, chosen first match
\* wins in the order sql, credential or login, behavior; explanation_level is
\* detailed exactly when the query contains explain.
C4_RouterPriority ==
    "priority_weights" \in DOMAIN state =>
        LET query == RouterQuery(state)
            w == state["priority_weights"]
            mode == state["analysis_mode"]
            sql == Contains(K_sql, query)
            login == Contains(K_credential, query) \/ Contains(K_login, query)
            behavior == Contains(K_behavior, query)
        IN  /\ DOMAIN w = {"sequence", "payload", "behavior"}
            /\ \A k \in DOMAIN w : w[k] \in {Weight(10), Weight(15)}
            /\ Cardinality({k \in DOMAIN w : w[k].dec = 15}) <= 1
            /\ (w["payload"].dec = 15) <=> (mode = "payload_focus")
            /\ (mode = "payload_focus") <=> sql
            /\ (w["sequence"].dec = 15) <=> (mode = "sequence_focus")
            /\ (mode = "sequence_focus") <=> (login /\ ~sql)
            /\ (w["behavior"].dec = 15) <=> (mode = "behavior_focus")
            /\ (mode = "behavior_focus") <=> (behavior /\ ~login /\ ~sql)
            /\ (mode = "full") <=> (~behavior /\ ~login /\ ~sql)
            /\ mode \in {"full", "payload_focus", "sequence_focus", "behavior_focus"}
            /\ (state["explanation_level"] = "detailed") <=> Contains(K_explain, query)
            /\ state["explanation_level"] \in {"detailed", "standard"}

\* the query "sql login issue" has been routed: sql won over login
C4_Witness ==
    /\ "priority_weights" \in DOMAIN state
    /\ "query" \in DOMAIN state
    /\ state["query"] = Q_sql_login
    /\ state["analysis_mode"] = "payload_focus"

\* the risk score for default weights and category maxima 0.9, 0.1, 0.1
DefaultRiskExample == WeightedRisk(DefaultWeights, Feature(90), Feature(10), Feature(10))

\* C5: risk_score is 0.4 * w_sequence * max(sequence features)
\* + 0.4 * w_payload * max(payload features) + 0.2 * w_behavior * max(behavior
\* features); with default weights and maxima 0.9, 0.1, 0.1 it is 0.42.
C5_RiskScore ==
    /\ DefaultRiskExample.dec = 4200
    /\ "risk_score" \in DOMAIN state =>
        LET top(d) == CHOOSE v \in {d[k].dec : k \in DOMAIN d} : \A k \in DOMAIN d : d[k].dec <= v
            w == state["priority_weights"]
        IN  state["risk_score"].dec =
                4 * w["sequence"].dec * top(state["sequence_features"])
                  + 4 * w["payload"].dec * top(state["payload_features"])
                  + 2 * w["behavior"].dec * top(state["behavior_features"])

\* a risk score computed with a boosted behavior weight and unequal maxima
C5_Witness ==
    /\ "risk_score" \in DOMAIN state
    /\ state["priority_weights"]["behavior"].dec = 15
    /\ MaxValues(state["sequence_features"]).dec = 90
    /\ MaxValues(state["payload_features"]).dec = 95
    /\ MaxValues(state["behavior_features"]).dec = 80

\* C6: risk_factors holds a feature name exactly when that feature's value is
\* strictly above 0.7, each name once; request_frequency of a batch of exactly 7
\* events (0.7) is not reported.
C6_RiskFactors ==
    "risk_factors" \in DOMAIN state =>
        LET feats == AllFeatures(state)
        IN  /\ \A name \in DOMAIN feats :
                 (name \in Range(state["risk_factors"])) <=> (feats[name].dec > 70)
            /\ Range(state["risk_factors"]) \subseteq DOMAIN feats
            /\ NoDuplicates(state["risk_factors"])
            /\ Len(state["logs"]) = 7 => "request_frequency" \notin Range(state["risk_factors"])

\* a batch of exactly 7 events with other factors reported
C6_Witness ==
    /\ "risk_factors" \in DOMAIN state
    /\ Len(state["logs"]) = 7
    /\ state["sequence_features"]["request_frequency"].dec = 70
    /\ Len(state["risk_factors"]) >= 2

\* C7: alert_type is null exactly when the four primary features are all at most
\* 0.5; then alert_confidence is 0.0 and analysis_summary is the empty selection.
\* The empty batch gives this result.
C7_NoAlert ==
    pc = "END" =>
        LET feats == AllFeatures(state)
            quiet == \A name \in {"sql_injection_score", "login_velocity",
                                  "sequential_object_access", "repeated_action_score"} :
                         feats[name].dec <= 50
        IN  /\ (state["alert_type"] = "None") <=> quiet
            /\ quiet => /\ state["alert_confidence"] = NumZero
                        /\ Summary = [selected_alert |-> "None", confidence |-> NumZero,
                                      supporting_evidence |-> <<>>,
                                      contradicting_evidence |-> <<>>]
            /\ Len(state["logs"]) = 0 => state["alert_type"] = "None"

\* a non-empty batch that raised other features ended without an alert
C7_Witness ==
    /\ pc = "END"
    /\ state["alert_type"] = "None"
    /\ Len(state["logs"]) >= 1
    /\ Len(state["risk_factors"]) >= 1

\* C8: during the scan a raised sql_injection_score (unexpected_field_score) is
\* never lowered; the stored sql_injection_score is 0.95 if some event's
\* params+body holds a marker and 0.1 otherwise, likewise unexpected_field_score,
\* and the scan of the reversed batch gives the same features.
C8_StickyHigh ==
    /\ [][/\ sql_injection_score.dec = 95 => sql_injection_score'.dec = 95
          /\ unexpected_field_score.dec = 90 => unexpected_field_score'.dec = 90]_vars
    /\ []("payload_features" \in DOMAIN state =>
            LET logs == state["logs"]
                pf == state["payload_features"]
            IN  /\ pf["sql_injection_score"].dec =
                     IF \E k \in 1..Len(logs) : HasSqlMarker(logs[k]) THEN 95 ELSE 10
                /\ pf["unexpected_field_score"].dec =
                     IF \E k \in 1..Len(logs) : HasFieldMarker(logs[k]) THEN 90 ELSE 10
                /\ ScanFrom(Reverse(logs), 1, Feature(10), Feature(10)) = pf)

\* the scan has passed a marker event and then an event without marker
C8_Witness ==
    /\ idx >= 3
    /\ HasSqlMarker(state["logs"][1])
    /\ ~HasSqlMarker(state["logs"][idx - 1])
    /\ sql_injection_score.dec = 95

\* C9: with the three extractors run in any order and interleaved, the final
\* record is the one the fixed order sequence -> payload -> behavior gives, and
\* the risk score is only computed once the three feature sets are written.
C9_OrderIndependent ==
    /\ pc = "END" =>
         LET input == [k \in DOMAIN state \cap {"logs", "query", "selected_vuln", "client"} |-> state[k]]
             fixed == FixedOrderResult(input)
         IN  \A k \in {"sequence_features", "payload_features", "behavior_features",
                       "risk_score", "risk_factors", "alert_type", "alert_confidence",
                       "analysis_summary"} : k \in DOMAIN state /\ state[k] = fixed[k]
    /\ "risk_score" \in DOMAIN state =>
         {"sequence_features", "payload_features", "behavior_features"} \subseteq DOMAIN state

\* the behavior profiler has run before the sequence analyzer, inside the scan
C9_Witness ==
    /\ pc = "extractors"
    /\ "behavior_features" \in DOMAIN state
    /\ "sequence_features" \notin DOMAIN state
    /\ "payload_features" \notin DOMAIN state
    /\ idx >= 2

\* C10: every candidate's score before the clamp is at least 0.5, so the clamp
\* changes nothing; risk_score is at least 0.2; a non-null alert_type comes with
\* a strictly positive alert_confidence.
C10_ClampIdle ==
    /\ "risk_score" \in DOMAIN state => state["risk_score"].dec >= 2000
    /\ pc = "END" =>
         LET defs == Catalogue(state)
             feats == AllFeatures(state)
             raw(k) == feats[defs[k].primary_name].dec
                         + 10 * FiredCount(defs[k].support_keys, feats, 50)
                         - 15 * FiredCount(defs[k].contradict_keys, feats, 70)
         IN  /\ \A k \in 1..Len(defs) : \A j \in 1..Len(evaluated) :
                  evaluated[j].label = defs[k].label =>
                    /\ raw(k) >= 50
                    /\ evaluated[j].evidence.score.dec = raw(k) * state["risk_score"].dec
             /\ state["alert_type"] # "None" =>
                  /\ state["alert_confidence"].dec > 0
                  /\ NCmp(state["alert_confidence"], NumZero) > 0

\* a candidate with two contradictions and no support: 0.8 - 0.3 before the clamp
C10_Witness ==
    /\ pc = "END"
    /\ \E j \in 1..Len(evaluated) :
         /\ Len(evaluated[j].evidence.contradict) = 2
         /\ evaluated[j].evidence.score.dec = 50 * state["risk_score"].dec
====
